---- MODULE Spec2Model ----
(***************************************************************************)
(* A model of the createAI client of src/src/types.ts: the provider cache, *)
(* getProvider, getModel, calculateCosts and generate, with several        *)
(* generate calls in flight on one JavaScript event loop.                  *)
(*                                                                         *)
(* A step of the model is one run-to-completion piece of a generate call:  *)
(* the synchronous part up to its first suspension, or the continuation    *)
(* that runs when the awaited promise settles.  The provider factories,    *)
(* generateText and console.log are the environment: a factory throws, or  *)
(* returns a value or a promise that later fulfils or rejects; generateText*)
(* later fulfils with some usage or rejects; console.log returns or throws.*)
(*                                                                         *)
(* Not modelled: the clock (responseTimeMs and the seconds of the log      *)
(* line), the pass-through parameters prompt, system, temperature,         *)
(* maxOutputTokens and output, and property names inherited from           *)
(* Object.prototype (aliases and provider keys are own keys or absent).    *)
(***************************************************************************)
EXTENDS Integers, Sequences, FiniteSets

\* ------------------------------------------------------------------ bounds

\* generate calls issued on the client during its lifetime, when the calls differ
\* only in their model alias (SpecRace)
MaxCalls == 3

\* generate calls issued on the client during its lifetime, when the calls range
\* over every logKey, usage and console.log outcome as well (Spec)
MaxDetailedCalls == 2

Calls == 1..MaxCalls

DetailedCalls == 1..MaxDetailedCalls

\* ------------------------------------------------------------ JS values

\* Every value is a record, so that any two values can be compared.
Undefined == [undefined |-> TRUE]

\* a JavaScript string
Str(s) == [str |-> s]

\* obj[key] on a plain object, map.get(key) on a Map: undefined when absent
Lookup(obj, key) == IF key \in DOMAIN obj THEN obj[key] ELSE Undefined

\* map.set(key, value)
MapSet(map, key, value) ==
    [x \in DOMAIN map \cup {key} |-> IF x = key THEN value ELSE map[x]]

EmptyMap == [x \in {} |-> Undefined]

\* the conversion to boolean of `if (v)` and `!v`, on the values of this model
Truthy(v) == v \notin {Undefined, Str(""), [n |-> 0, d |-> 1]}

\* a ?? b
Coalesce(a, b) == IF a = Undefined THEN b ELSE a

\* ------------------------------------------------------- exact numbers
\* A JavaScript number is modelled by the exact rational n/d, d > 0, in
\* lowest terms.

RECURSIVE GCD(_, _)
GCD(a, b) == IF b = 0 THEN a ELSE GCD(b, a % b)

Abs(n) == IF n < 0 THEN -n ELSE n

Rat(n, d) ==
    LET g == GCD(Abs(n), Abs(d))
        s == IF d < 0 THEN -1 ELSE 1
    IN  IF n = 0 THEN [n |-> 0, d |-> 1]
        ELSE [n |-> s * (n \div g), d |-> s * (d \div g)]

Num(n) == [n |-> n, d |-> 1]

RatDiv(a, b) == Rat(a.n * b.d, a.d * b.n)

RatMul(a, b) == Rat(a.n * b.n, a.d * b.d)

RatAdd(a, b) == Rat(a.n * b.d + b.n * a.d, a.d * b.d)

\* ------------------------------------------------------------ the config

OneMillion == 1000000

ProviderKeys == {"openai", "anthropic"}

\* config.providers: each key holds a factory, named here by its key
providers == [k \in ProviderKeys |-> [factory |-> k]]

NoCosts == Undefined

\* config.models: "fast" has no costs, "smart" has the README's rates,
\* "free" has rates of zero, "orphan" names a provider key that providers lacks
models ==
    [a \in {"fast", "smart", "free", "orphan"} |->
        CASE a = "fast"   -> [provider |-> "openai", id |-> "gpt-4o-mini",
                              costs |-> NoCosts]
          [] a = "smart"  -> [provider |-> "openai", id |-> "gpt-4o",
                              costs |-> [input |-> Rat(5, 2), output |-> Num(10)]]
          [] a = "free"   -> [provider |-> "anthropic", id |-> "claude",
                              costs |-> [input |-> Num(0), output |-> Num(0)]]
          [] a = "orphan" -> [provider |-> "mistral", id |-> "mistral-small",
                              costs |-> NoCosts]]

config == [providers |-> providers, models |-> models]

\* --------------------------------------------------------------- inputs

\* params.model: the registered aliases and one that is not registered
Aliases == DOMAIN models \cup {"nope"}

\* params.logKey: not set, the empty string, a non-empty string
LogKeys == {Undefined, Str(""), Str("req-1")}

NoUsage == Undefined

\* result.usage as generateText reports it: absent, both counts, one count
Usages == {NoUsage,
           [inputTokens |-> Num(1000000), outputTokens |-> Num(500000)],
           [outputTokens |-> Num(3)]}

\* what generateText rejects with
SdkErrors == {[name |-> "APICallError"]}

\* ----------------------------------------------------------------- state

VARIABLES
    providerCache,   \* the Map of createAI: provider key -> provider instance
    factoryCalls,    \* per provider key, how often its factory has been invoked
    calls            \* per generate call, where it stands and what it has done

vars == <<providerCache, factoryCalls, calls>>

IdleCall ==
    [pc |-> "idle", params |-> Undefined,
     promise |-> Undefined, provider |-> Undefined, handle |-> Undefined,
     error |-> Undefined, response |-> Undefined, logs |-> <<>>,
     invoked |-> {}, generateTextCalls |-> 0]

\* a createAI that invokes every factory as the client is constructed
InitEager ==
    /\ providerCache = [k \in ProviderKeys |-> [key |-> k, gen |-> 1]]
    /\ factoryCalls = [k \in ProviderKeys |-> 1]
    /\ calls = [p \in Calls |-> IdleCall]

Init ==
    /\ providerCache = EmptyMap
    /\ factoryCalls = [k \in ProviderKeys |-> 0]
    /\ calls = [p \in Calls |-> IdleCall]

\* ------------------------------------------------------------ getProvider

\* getProvider without its cache lookup
CacheHitNever(cache, providerKey) == FALSE

\* `if (cached) return cached`
CacheHit(cache, providerKey) == Truthy(Lookup(cache, providerKey))

\* the provider key of a started call's model entry (none for an unknown alias)
ProviderKeyOf(c) ==
    IF c.pc = "idle" THEN Undefined
    ELSE LET modelConfig == Lookup(config.models, c.params.model)
         IN  IF modelConfig = Undefined THEN Undefined
             ELSE Str(modelConfig.provider)

\* the calls suspended at `await Promise.resolve(factory())` for providerKey
Pending(providerKey) ==
    {q \in Calls : calls[q].pc = "awaitFactory"
                   /\ ProviderKeyOf(calls[q]) = Str(providerKey)}

\* generate has returned or thrown: its locals are gone
Settled(c) ==
    [c EXCEPT !.promise = Undefined, !.provider = Undefined, !.handle = Undefined]

\* the promise of generate(params) rejects with e
Rejected(c, e) == [Settled(c) EXCEPT !.pc = "rejected", !.error = e]

\* the promise of generate(params) fulfils with response
Fulfilled(c, response) ==
    [Settled(c) EXCEPT !.pc = "fulfilled", !.response = response]

\* The synchronous part of generate(params): getModel reads the model entry,
\* getProvider reads the cache and, on a miss, invokes the factory.
Generate(p, alias, logKey) ==
    /\ calls[p].pc = "idle"
    /\ \A q \in Calls : q < p => calls[q].pc # "idle"
    /\ LET c == [calls[p] EXCEPT !.params = [model |-> alias, logKey |-> logKey]]
           modelConfig == Lookup(config.models, alias)
       IN  IF modelConfig = Undefined
           THEN \* modelConfig.provider: TypeError, reading a property of undefined
                /\ calls' = [calls EXCEPT ![p] = Rejected(c, [name |-> "TypeError"])]
                /\ UNCHANGED <<providerCache, factoryCalls>>
           ELSE LET providerKey == modelConfig.provider
                    factory == Lookup(config.providers, providerKey)
                IN  IF CacheHit(providerCache, providerKey)
                    THEN /\ calls' = [calls EXCEPT ![p] =
                                [c EXCEPT !.pc = "awaitProvider",
                                          !.provider = providerCache[providerKey]]]
                         /\ UNCHANGED <<providerCache, factoryCalls>>
                    ELSE IF factory = Undefined
                    THEN \* factory(): TypeError, undefined is not a function
                         /\ calls' = [calls EXCEPT ![p] =
                                Rejected(c, [name |-> "TypeError"])]
                         /\ UNCHANGED <<providerCache, factoryCalls>>
                    ELSE LET n == factoryCalls[providerKey] + 1
                             d == [c EXCEPT !.invoked = @ \cup {providerKey}]
                         IN  /\ factoryCalls' = [factoryCalls EXCEPT ![providerKey] = n]
                             /\ UNCHANGED providerCache
                             /\ \/ \* the factory throws
                                   calls' = [calls EXCEPT ![p] =
                                        Rejected(d, [name |-> "FactoryError"])]
                                \/ \* the factory returns an instance or a promise of one
                                   calls' = [calls EXCEPT ![p] =
                                        [d EXCEPT !.pc = "awaitFactory",
                                                  !.promise = [resolvesTo |->
                                                     [key |-> providerKey, gen |-> n]]]]

\* a getProvider that stores and returns what factory() returned, unawaited
FactoryResolveUnawaited(p) ==
    /\ calls[p].pc = "awaitFactory"
    /\ providerCache' =
           MapSet(providerCache, config.models[calls[p].params.model].provider,
                  calls[p].promise)
    /\ calls' = [calls EXCEPT ![p] =
            [@ EXCEPT !.pc = "awaitProvider", !.provider = calls[p].promise,
                      !.promise = Undefined]]
    /\ UNCHANGED factoryCalls

\* a getProvider that keeps the entry another call has stored meanwhile
FactoryResolveFirstWins(p) ==
    /\ calls[p].pc = "awaitFactory"
    /\ LET provider == calls[p].promise.resolvesTo
           providerKey == config.models[calls[p].params.model].provider
       IN  /\ providerCache' =
                  IF providerKey \in DOMAIN providerCache THEN providerCache
                  ELSE MapSet(providerCache, providerKey, provider)
           /\ calls' = [calls EXCEPT ![p] =
                    [@ EXCEPT !.pc = "awaitProvider", !.promise = Undefined,
                              !.provider = provider]]
    /\ UNCHANGED factoryCalls

\* `await Promise.resolve(factory())` fulfils: the instance is stored and returned
FactoryResolve(p) ==
    /\ calls[p].pc = "awaitFactory"
    /\ LET provider == calls[p].promise.resolvesTo
           providerKey == config.models[calls[p].params.model].provider
       IN  /\ providerCache' = MapSet(providerCache, providerKey, provider)
           /\ calls' = [calls EXCEPT ![p] =
                    [@ EXCEPT !.pc = "awaitProvider", !.promise = Undefined,
                              !.provider = provider]]
    /\ UNCHANGED factoryCalls

\* map.delete(key)
MapDelete(map, key) == [x \in DOMAIN map \ {key} |-> map[x]]

\* a getProvider that drops the key's cache entry when the factory rejects
FactoryRejectEvict(p) ==
    /\ calls[p].pc = "awaitFactory"
    /\ providerCache' =
           MapDelete(providerCache, config.models[calls[p].params.model].provider)
    /\ calls' = [calls EXCEPT ![p] = Rejected(@, [name |-> "FactoryError"])]
    /\ UNCHANGED factoryCalls

\* a getProvider that stores what the factory returned before awaiting it
FactoryRejectCachesPromise(p) ==
    /\ calls[p].pc = "awaitFactory"
    /\ providerCache' =
           MapSet(providerCache, config.models[calls[p].params.model].provider,
                  calls[p].promise)
    /\ calls' = [calls EXCEPT ![p] = Rejected(@, [name |-> "FactoryError"])]
    /\ UNCHANGED factoryCalls

\* `await Promise.resolve(factory())` rejects: getProvider, getModel and generate
\* reject with the factory's error
FactoryReject(p) ==
    /\ calls[p].pc = "awaitFactory"
    /\ calls' = [calls EXCEPT ![p] =
            Rejected(@, [name |-> "FactoryError"])]
    /\ UNCHANGED <<providerCache, factoryCalls>>

\* ---------------------------------------------------------------- getModel

\* provider(modelConfig.id): the model handle
Bind(provider, id) == [provider |-> provider, modelId |-> id]

\* getProvider has returned: getModel binds the model id, generate invokes
\* generateText and suspends on it
InvokeGenerateText(p) ==
    /\ calls[p].pc = "awaitProvider"
    /\ LET c == calls[p]
           modelConfig == config.models[c.params.model]
       IN  calls' = [calls EXCEPT ![p] =
               [c EXCEPT !.pc = "awaitGenerateText",
                         !.handle = Bind(c.provider, modelConfig.id),
                         !.generateTextCalls = @ + 1]]
    /\ UNCHANGED <<providerCache, factoryCalls>>

\* ---------------------------------------------------------- calculateCosts

\* a calculateCosts that takes rates of zero for costs that are not configured
calculateCostsFalsyRates(modelKey, inputTokens, outputTokens) ==
    LET costs == config.models[modelKey].costs
    IN  IF ~Truthy(costs) \/ (~Truthy(costs.input) /\ ~Truthy(costs.output))
        THEN [inputCostUsd |-> Undefined, outputCostUsd |-> Undefined,
              totalCostUsd |-> Undefined]
        ELSE LET inputCostUsd ==
                     RatMul(RatDiv(inputTokens, Num(OneMillion)), costs.input)
                 outputCostUsd ==
                     RatMul(RatDiv(outputTokens, Num(OneMillion)), costs.output)
             IN  [inputCostUsd |-> inputCostUsd, outputCostUsd |-> outputCostUsd,
                  totalCostUsd |-> RatAdd(inputCostUsd, outputCostUsd)]

\* x >= 0 rounded half up to 4 fraction digits
RoundedTo4Digits(x) == Rat((2 * x.n * 10000 + x.d) \div (2 * x.d), 10000)

\* a calculateCosts that rounds each cost as the log line's formatter does
calculateCostsRounded(modelKey, inputTokens, outputTokens) ==
    LET costs == config.models[modelKey].costs
    IN  IF ~Truthy(costs)
        THEN [inputCostUsd |-> Undefined, outputCostUsd |-> Undefined,
              totalCostUsd |-> Undefined]
        ELSE LET inputCostUsd == RoundedTo4Digits(
                     RatMul(RatDiv(inputTokens, Num(OneMillion)), costs.input))
                 outputCostUsd == RoundedTo4Digits(
                     RatMul(RatDiv(outputTokens, Num(OneMillion)), costs.output))
             IN  [inputCostUsd |-> inputCostUsd, outputCostUsd |-> outputCostUsd,
                  totalCostUsd |-> RatAdd(inputCostUsd, outputCostUsd)]

calculateCosts(modelKey, inputTokens, outputTokens) ==
    LET modelConfig == config.models[modelKey]
    IN  IF ~Truthy(modelConfig.costs)
        THEN [inputCostUsd |-> Undefined, outputCostUsd |-> Undefined,
              totalCostUsd |-> Undefined]
        ELSE LET inputCostUsd ==
                     RatMul(RatDiv(inputTokens, Num(OneMillion)), modelConfig.costs.input)
                 outputCostUsd ==
                     RatMul(RatDiv(outputTokens, Num(OneMillion)), modelConfig.costs.output)
             IN  [inputCostUsd |-> inputCostUsd, outputCostUsd |-> outputCostUsd,
                  totalCostUsd |-> RatAdd(inputCostUsd, outputCostUsd)]

\* ----------------------------------------------------------- the log line

FractionDigits == 4

\* costFormatter.format(x), x >= 0: US dollars, rounded half up to 4 fraction
\* digits; the amount is held in units of 10^-4 dollars
Format(x) ==
    [currency |-> "USD",
     amount |-> (2 * x.n * 10^FractionDigits + x.d) \div (2 * x.d)]

\* `if (params.logKey)`
LogRequested(logKey) == Truthy(logKey)

\* the text handed to console.log, without the elapsed seconds
LogLine(params, costs) ==
    [logKey |-> params.logKey, model |-> params.model,
     costStr |-> IF costs.totalCostUsd # Undefined
                 THEN [total |-> Format(costs.totalCostUsd),
                       in |-> Format(costs.inputCostUsd),
                       out |-> Format(costs.outputCostUsd)]
                 ELSE Str("")]

\* ---------------------------------------------------------------- generate

\* generateText fulfils with `usage`: the rest of generate runs to its end.
\* console.log returns, or throws when logThrows.
GenerateTextResolve(p, usage, logThrows) ==
    /\ calls[p].pc = "awaitGenerateText"
    /\ logThrows => LogRequested(calls[p].params.logKey)
    /\ LET c == calls[p]
           inputTokens == Coalesce(Lookup(usage, "inputTokens"), Num(0))
           outputTokens == Coalesce(Lookup(usage, "outputTokens"), Num(0))
           costs == calculateCosts(c.params.model, inputTokens, outputTokens)
           line == LogLine(c.params, costs)
           response ==
               [data |-> Str("text"),
                metadata |-> [inputTokens |-> inputTokens,
                              outputTokens |-> outputTokens,
                              inputCostUsd |-> costs.inputCostUsd,
                              outputCostUsd |-> costs.outputCostUsd,
                              totalCostUsd |-> costs.totalCostUsd]]
       IN  calls' = [calls EXCEPT ![p] =
               IF ~LogRequested(c.params.logKey)
               THEN Fulfilled(c, response)
               ELSE IF logThrows
               THEN \* console.log throws: nothing catches it
                    Rejected(c, [name |-> "LogError"])
               ELSE Fulfilled([c EXCEPT !.logs = Append(@, line)], response)]
    /\ UNCHANGED <<providerCache, factoryCalls>>

\* a generate that calls generateText again when it rejects
GenerateTextRejectRetry(p, e) ==
    /\ calls[p].pc = "awaitGenerateText"
    /\ calls' = [calls EXCEPT ![p] =
            IF @.generateTextCalls < 2
            THEN [@ EXCEPT !.generateTextCalls = @ + 1]
            ELSE Rejected(@, e)]
    /\ UNCHANGED <<providerCache, factoryCalls>>

\* generateText rejects with e: generate rejects with e
GenerateTextReject(p, e) ==
    /\ calls[p].pc = "awaitGenerateText"
    /\ calls' = [calls EXCEPT ![p] = Rejected(@, e)]
    /\ UNCHANGED <<providerCache, factoryCalls>>

\* ----------------------------------------------------------- specification

\* Every input of every call: up to MaxDetailedCalls calls, in any interleaving.
Next ==
    \E p \in DetailedCalls :
        \/ \E alias \in Aliases, logKey \in LogKeys : Generate(p, alias, logKey)
        \/ FactoryResolve(p)
        \/ FactoryReject(p)
        \/ InvokeGenerateText(p)
        \/ \E usage \in Usages, logThrows \in BOOLEAN :
               GenerateTextResolve(p, usage, logThrows)
        \/ \E e \in SdkErrors : GenerateTextReject(p, e)

Spec == Init /\ [][Next]_vars

\* Provider resolution under more concurrency: up to MaxCalls calls, in any
\* interleaving, each with no logKey and a generateText that reports no usage
\* (neither is read by getProvider or getModel).
NextRace ==
    \E p \in Calls :
        \/ \E alias \in Aliases : Generate(p, alias, Undefined)
        \/ FactoryResolve(p)
        \/ FactoryReject(p)
        \/ InvokeGenerateText(p)
        \/ GenerateTextResolve(p, NoUsage, FALSE)
        \/ \E e \in SdkErrors : GenerateTextReject(p, e)

SpecRace == Init /\ [][NextRace]_vars

\* ------------------------------------------------------- reading the state

FactoryError == [name |-> "FactoryError"]

\* call p makes its synchronous first step in this step
Starts(p) == calls[p].pc = "idle" /\ calls'[p].pc # "idle"

\* call p is a call for a model bound to provider key k
BoundTo(c, k) == ProviderKeyOf(c) = Str(k)

\* some call's invocation of k's factory has thrown or rejected
FactoryFailed(k) ==
    \E p \in Calls : calls[p].error = FactoryError /\ BoundTo(calls[p], k)

\* call p's invocation of k's factory has fulfilled
Resolved(p, k) ==
    /\ k \in calls[p].invoked
    /\ calls[p].pc # "awaitFactory"
    /\ calls[p].error # FactoryError

\* ------------------------------------------------------------------ claims

C2_CachedIsReused ==
    [][\A k \in ProviderKeys :
          k \in DOMAIN providerCache =>
              /\ k \in DOMAIN providerCache'
              /\ factoryCalls'[k] = factoryCalls[k]
              /\ \A p \in Calls :
                    /\ (Starts(p) /\ BoundTo(calls'[p], k)) =>
                          /\ calls'[p].pc = "awaitProvider"
                          /\ calls'[p].provider = providerCache[k]
                          /\ calls'[p].invoked = {}
                    /\ (calls[p].pc = "awaitProvider" /\ BoundTo(calls[p], k)
                            /\ calls'[p] # calls[p]) =>
                          /\ calls'[p].pc = "awaitGenerateText"
                          /\ calls'[p].handle.provider = calls[p].provider]_vars

\* a call has just taken from the cache the instance another call stored
C2_Witness ==
    \E k \in ProviderKeys : \E p, q \in Calls :
        /\ p # q /\ BoundTo(calls[p], k) /\ Resolved(q, k)
        /\ calls[p].pc = "awaitGenerateText" /\ calls[p].invoked = {}
        /\ calls[p].handle.provider = providerCache[k]

\* call p's factory invocation fails in this step
FactoryFails(p) == calls[p].error # FactoryError /\ calls'[p].error = FactoryError

\* C3 as stated: when the factory for k fails during a generate call, the call
\* is rejected and the failure writes nothing to the cache; and the next
\* generate call for a model bound to k (here: the call that starts next after
\* the failed one, once that one has failed) invokes the factory again.
C3_NextCallReinvokes ==
    [][\A p \in Calls :
          /\ FactoryFails(p) =>
                (calls'[p].pc = "rejected" /\ providerCache' = providerCache)
          /\ (p > 1 /\ Starts(p) /\ calls[p - 1].error = FactoryError
                  /\ ProviderKeyOf(calls'[p]) = ProviderKeyOf(calls[p - 1]))
              => calls'[p].invoked # {}]_vars

\* C3 as amended: when the factory for k fails during a generate call, the call
\* is rejected without a response and the failure writes nothing to the cache;
\* as long as no invocation of k's factory has fulfilled, k is not cached; and
\* every generate call that starts for a model bound to k while k is not
\* cached invokes the factory again.
C3_FailureIsNotCached ==
    [][/\ \A p \in Calls :
             FactoryFails(p) =>
                 /\ calls'[p].pc = "rejected"
                 /\ calls'[p].response = Undefined
                 /\ calls'[p].generateTextCalls = 0
                 /\ providerCache' = providerCache
       /\ \A k \in ProviderKeys :
             /\ (\A p \in Calls : ~Resolved(p, k)') => k \notin DOMAIN providerCache'
             /\ \A p \in Calls :
                   (Starts(p) /\ BoundTo(calls'[p], k)
                       /\ k \notin DOMAIN providerCache)
                   => /\ calls'[p].invoked = {k}
                      /\ factoryCalls'[k] = factoryCalls[k] + 1]_vars

\* a call's factory invocation failed, and a later call for the same key
\* invoked the factory again and cached its instance
C3_Witness ==
    \E k \in ProviderKeys : \E p, q \in Calls :
        /\ p < q /\ BoundTo(calls[p], k) /\ BoundTo(calls[q], k)
        /\ calls[p].error = FactoryError
        /\ Resolved(q, k)
        /\ factoryCalls[k] = 2
        /\ providerCache[k] = [key |-> k, gen |-> 2]

\* C4: a generate call whose alias is not a key of config.models is rejected
\* with UnknownModelError in its first step, invoking no factory and no
\* generateText and leaving the cache as it was.
C4_UnknownModelError ==
    [][\A p \in Calls :
          (Starts(p) /\ calls'[p].params.model \notin DOMAIN config.models)
          => /\ calls'[p].pc = "rejected"
             /\ calls'[p].error = [name |-> "UnknownModelError"]
             /\ calls'[p].invoked = {}
             /\ calls'[p].generateTextCalls = 0
             /\ factoryCalls' = factoryCalls
             /\ providerCache' = providerCache]_vars

\* the model entry of a started call names a provider key config.providers lacks
Dangling(c) ==
    /\ c.pc # "idle"
    /\ c.params.model \in DOMAIN config.models
    /\ config.models[c.params.model].provider \notin DOMAIN config.providers

\* C5: createAI has accepted the configuration (validation is lazy), so a
\* generate call for a model whose provider key is absent from
\* config.providers is rejected with ConfigError before generateText is
\* invoked.
C5_ConfigError ==
    \A p \in Calls :
        Dangling(calls[p]) =>
            /\ calls[p].pc = "rejected"
            /\ calls[p].error = [name |-> "ConfigError"]
            /\ calls[p].generateTextCalls = 0

\* the costs of a started call's model entry
CostsOf(c) == config.models[c.params.model].costs

CostFields(metadata) ==
    {metadata.inputCostUsd, metadata.outputCostUsd, metadata.totalCostUsd}

\* C6: in the metadata of every fulfilled generate call the three cost fields
\* are all numbers when the model entry has costs and all undefined when it
\* has none, whatever the token counts; with costs {input: 0, output: 0} the
\* three fields are the number 0.
C6_CostFieldsIffCosts ==
    \A p \in Calls :
        calls[p].pc = "fulfilled" =>
            LET fields == CostFields(calls[p].response.metadata)
            IN  /\ CostsOf(calls[p]) # Undefined => Undefined \notin fields
                /\ CostsOf(calls[p]) = Undefined => fields = {Undefined}
                /\ CostsOf(calls[p]) = [input |-> Num(0), output |-> Num(0)]
                       => fields = {Num(0)}

\* a call for the model with rates of zero is fulfilled with a million input
\* tokens and zero costs, and a call for the model without costs is fulfilled
C6_Witness ==
    \E p, q \in Calls :
        /\ calls[p].pc = "fulfilled" /\ calls[p].params.model = "free"
        /\ calls[p].response.metadata.inputTokens = Num(1000000)
        /\ calls[p].response.metadata.totalCostUsd = Num(0)
        /\ calls[q].pc = "fulfilled" /\ calls[q].params.model = "fast"
        /\ calls[q].response.metadata.outputTokens = Num(3)

\* C7: for every fulfilled call whose model entry has costs, inputCostUsd is
\* inputTokens / 1,000,000 * costs.input, outputCostUsd is outputTokens /
\* 1,000,000 * costs.output and totalCostUsd is their sum, exactly; rates
\* {2.5, 10} with 1,000,000 and 500,000 tokens give 2.5, 5 and 7.5.
C7_CostArithmetic ==
    \A p \in Calls :
        (calls[p].pc = "fulfilled" /\ CostsOf(calls[p]) # Undefined) =>
            LET m == calls[p].response.metadata
                costs == CostsOf(calls[p])
            IN  /\ RatMul(m.inputCostUsd, Num(OneMillion))
                       = RatMul(m.inputTokens, costs.input)
                /\ RatMul(m.outputCostUsd, Num(OneMillion))
                       = RatMul(m.outputTokens, costs.output)
                /\ m.totalCostUsd = RatAdd(m.inputCostUsd, m.outputCostUsd)
                /\ (costs = [input |-> Rat(5, 2), output |-> Num(10)]
                        /\ m.inputTokens = Num(1000000)
                        /\ m.outputTokens = Num(500000))
                    => /\ m.inputCostUsd = Rat(5, 2)
                       /\ m.outputCostUsd = Num(5)
                       /\ m.totalCostUsd = Rat(15, 2)

\* the example of the claim has been computed, and so has a cost below the
\* fourth fraction digit
C7_Witness ==
    \E p, q \in Calls :
        /\ calls[p].pc = "fulfilled" /\ calls[p].params.model = "smart"
        /\ calls[p].response.metadata.inputTokens = Num(1000000)
        /\ calls[p].response.metadata.totalCostUsd = Rat(15, 2)
        /\ calls[q].pc = "fulfilled" /\ calls[q].params.model = "smart"
        /\ calls[q].response.metadata.outputCostUsd = Rat(3, 100000)

\* C8: a generate call invokes generateText at most once; when generateText
\* rejects, generate is rejected with the error generateText rejected with,
\* has no response and has logged nothing.
C8_NoRetryNoPartial ==
    \A p \in Calls :
        /\ calls[p].generateTextCalls <= 1
        /\ (calls[p].pc = "rejected" /\ calls[p].generateTextCalls > 0
                /\ calls[p].error # [name |-> "LogError"])
           => /\ calls[p].error \in SdkErrors
              /\ calls[p].response = Undefined
              /\ calls[p].logs = <<>>
        /\ calls[p].pc = "awaitGenerateText" =>
              (calls[p].response = Undefined /\ calls[p].logs = <<>>)

\* generateText has rejected a call that asked for a log line
C8_Witness ==
    \E p \in Calls :
        /\ calls[p].pc = "rejected" /\ calls[p].error \in SdkErrors
        /\ calls[p].generateTextCalls = 1
        /\ calls[p].params.logKey = Str("req-1")

\* C9: when logKey is set and console.log throws, the generate call is still
\* fulfilled with its response.
C9_LogFailureSwallowed ==
    \A p \in Calls :
        calls[p].error = [name |-> "LogError"] =>
            (calls[p].pc = "fulfilled" /\ calls[p].response # Undefined)

\* C10: a fulfilled generate call has logged exactly one line if logKey is a
\* string, the empty string included, and none if logKey is not set; the line
\* has the cost suffix exactly when the model entry has costs.
C10_OneLogLineIffLogKey ==
    \A p \in Calls :
        calls[p].pc = "fulfilled" =>
            /\ calls[p].params.logKey # Undefined => Len(calls[p].logs) = 1
            /\ calls[p].params.logKey = Undefined => Len(calls[p].logs) = 0
            /\ \A i \in 1..Len(calls[p].logs) :
                  calls[p].logs[i].costStr # Str("")
                      <=> CostsOf(calls[p]) # Undefined


\* C11: when the client has been constructed no factory has been invoked and
\* the cache is empty; the factory of provider key k is invoked, and the cache
\* entry of k is written, only by a step of a generate call whose model alias
\* maps to k, so a call for a model bound to k touches no other key.
C11_OnlyOwnProviderKey ==
    /\ \A k \in ProviderKeys : factoryCalls[k] = 0
    /\ providerCache = EmptyMap
    /\ [][/\ DOMAIN providerCache' \subseteq ProviderKeys
          /\ \A k \in ProviderKeys :
                /\ factoryCalls'[k] # factoryCalls[k] =>
                      \E p \in Calls :
                          /\ Starts(p) /\ BoundTo(calls'[p], k)
                          /\ factoryCalls'[k] = factoryCalls[k] + 1
                          /\ \A q \in Calls \ {p} : calls'[q] = calls[q]
                /\ Lookup(providerCache', k) # Lookup(providerCache, k) =>
                      \E p \in Calls :
                          /\ BoundTo(calls[p], k) /\ calls'[p] # calls[p]
                          /\ \A q \in Calls \ {p} : calls'[q] = calls[q]
          /\ \A p \in Calls : \A k \in calls'[p].invoked :
                BoundTo(calls'[p], k)]_vars

\* calls for models bound to one key have invoked its factory and cached its
\* instance, and the other key's factory and cache entry are untouched
C11_Witness ==
    \E k \in ProviderKeys : \E p \in Calls :
        /\ calls[p].pc = "fulfilled" /\ calls[p].invoked = {k}
        /\ DOMAIN providerCache = {k}
        /\ \A j \in ProviderKeys \ {k} : factoryCalls[j] = 0
        /\ \E q \in Calls : q # p /\ calls[q].pc = "rejected" /\ Dangling(calls[q])

\* the provider instances k's factory has returned so far
Instances(k) == {[key |-> k, gen |-> n] : n \in 1..factoryCalls[k]}

\* the instances of k whose factory invocation is still pending
PendingInstances(k) == {calls[q].promise.resolvesTo : q \in Pending(k)}

\* C12: in every reachable state each cache entry is a provider instance that
\* a completed invocation of that key's factory returned, never a promise or
\* an instance still pending; and the provider getProvider has returned to a
\* call, and the one its model handle is bound from, is such an instance.
C12_CacheHoldsResolvedInstances ==
    /\ \A k \in DOMAIN providerCache :
          /\ k \in ProviderKeys
          /\ providerCache[k] \in Instances(k) \ PendingInstances(k)
    /\ \A p \in Calls : \A k \in ProviderKeys :
          BoundTo(calls[p], k) =>
              /\ calls[p].pc \in {"awaitProvider", "awaitGenerateText"} =>
                    calls[p].provider \in Instances(k) \ PendingInstances(k)
              /\ calls[p].pc = "awaitGenerateText" =>
                    calls[p].handle.provider = calls[p].provider

\* while one invocation of k's factory is still pending, the cache holds the
\* instance of another, completed one and a third call has taken it from there
C12_Witness ==
    \E k \in ProviderKeys : \E p, q \in Calls :
        /\ q \in Pending(k)
        /\ k \in DOMAIN providerCache
        /\ providerCache[k] # calls[q].promise.resolvesTo
        /\ BoundTo(calls[p], k) /\ calls[p].invoked = {}
        /\ calls[p].pc = "awaitGenerateText"
        /\ calls[p].handle.provider = providerCache[k]

\* call p's invocation of the factory fulfils in this step
FactoryFulfils(p) ==
    calls[p].pc = "awaitFactory" /\ calls'[p].pc = "awaitProvider"

\* C13: when calls race on an unresolved key and each invokes the factory,
\* every fulfilment of one of these invocations puts its own instance in the
\* cache, replacing what an earlier fulfilment stored, and nothing else changes
\* the entry: once all have completed the cache holds the instance of the
\* invocation that fulfilled last. Each racing call gets its own instance from
\* getProvider and binds its model handle from it, a resolved instance of the
\* key.
C13_LastResolutionIsCached ==
    [][\A k \in ProviderKeys :
          /\ \A p \in Calls :
                /\ (BoundTo(calls[p], k) /\ FactoryFulfils(p)) =>
                      /\ providerCache'[k] = calls[p].promise.resolvesTo
                      /\ calls'[p].provider = calls[p].promise.resolvesTo
                /\ (BoundTo(calls[p], k) /\ calls[p].pc = "awaitProvider"
                        /\ calls'[p].pc = "awaitGenerateText") =>
                      /\ calls'[p].handle.provider = calls[p].provider
                      /\ calls[p].provider \in Instances(k) \ PendingInstances(k)
          /\ Lookup(providerCache', k) # Lookup(providerCache, k) =>
                \E p \in Calls : BoundTo(calls[p], k) /\ FactoryFulfils(p)]_vars

\* two calls raced on a key and both invocations have fulfilled, the first
\* invocation last: the cache holds the first instance, and each call has
\* bound its handle from its own instance
C13_Witness ==
    \E k \in ProviderKeys : \E p, q \in Calls :
        /\ p # q
        /\ calls[p].invoked = {k} /\ calls[q].invoked = {k}
        /\ Pending(k) = {} /\ factoryCalls[k] = 2
        /\ calls[p].pc = "awaitGenerateText"
        /\ calls[q].pc = "awaitGenerateText"
        /\ calls[p].handle.provider = [key |-> k, gen |-> 1]
        /\ calls[q].handle.provider = [key |-> k, gen |-> 2]
        /\ providerCache[k] = [key |-> k, gen |-> 1]

====
